---- MODULE Spec2Model ----
(***************************************************************************)
(* Model of the ncruces SQLite migration driver of knowledge-graph-mcp:    *)
(* the Driver (Open, Close, Lock, Unlock, Run, SetVersion, Version), its   *)
(* LockManager (Acquire, tryAcquire, Release) and the MigrationRunner.     *)
(* Several Driver instances share one database: the ledger table, the      *)
(* lock table and one user table written by migrations.                    *)
(***************************************************************************)
EXTENDS Integers, FiniteSets, Sequences, TLC

\* ---------------------------------------------------------------- bounds
NumInst == 2          \* Driver instances sharing the database
MaxVersion == 2       \* versions callers pass to SetVersion: 1..MaxVersion
TimeoutPolls == 2     \* poll intervals in the Acquire deadline (15 s / 100 ms, scaled)
MaxOversleep == 1     \* extra poll intervals one time.Sleep may take
MaxURLLen == 2        \* characters between "scheme://" and "?" in a URL

\* ------------------------------------------------------ program constants
NoVersion == -1       \* Version() when no migration is applied
LockRowId == 1        \* the lock row's id, pinned by CHECK (id = 1)
LatestVersion == 3    \* migrations 000001..000003 embedded for the runner

Inst == 1..NumInst
Versions == 1..MaxVersion

VARIABLES
    ledgerTable,   \* BOOLEAN: the ledger table (schema_migrations) exists
    ledger,        \* its rows: set of [version, dirty] (version is the primary key)
    lockTable,     \* BOOLEAN: the lock table (schema_migrations_lock) exists
    lockRows,      \* its rows: set of [id, locked]
    userTable,     \* BOOLEAN: the migrations' user table exists
    userRows,      \* ids of the rows of the user table
    conn,          \* per instance: "nil" (d.db == nil), "open", "closed"
    cfg,           \* per instance: the Config of the Driver
    pc,            \* per instance: position inside a call in progress
    todo,          \* per instance: the non-transactional Run in progress:
                   \*   [rest: statements still to execute, done: statements executed]
    dropping,      \* per instance: tables a Drop in progress has listed and not yet dropped
    elapsed,       \* per instance: poll intervals since Acquire computed its deadline
    holder,        \* per instance: its Lock() returned nil and it has not unlocked since
    rpc,           \* per instance: position of its MigrationRunner.RunMigrations
    rerr,          \* per instance: what RunMigrations returned
    parsed,        \* a URL on its way through ParseConfig and BuildURL
    ctx,           \* per instance: the context its Acquire was called with:
                   \*   "background" (never done), "live", "cancelled"
    tx,            \* per instance: the transaction of a clean SetVersion in progress
    last           \* the call that returned most recently, with its result

vars == <<ledgerTable, ledger, lockTable, lockRows, userTable, userRows,
          conn, cfg, pc, todo, dropping, elapsed, holder, rpc, rerr, parsed,
          ctx, tx, last>>

dbVars == <<ledgerTable, ledger, lockTable, lockRows, userTable, userRows>>

TxModes == {"DEFERRED", "IMMEDIATE", "EXCLUSIVE"}

\* ------------------------------------------------------------ URL model
\* A database URL is text.  The model keeps the scheme, the text between
\* "scheme://" and "?" as a sequence of characters, and the raw values of the
\* three query parameters ("" for a parameter that is absent).  The
\* characters stand for the classes net/url tells apart:
\*   "a"    an unreserved character
\*   "/"    the path separator
\*   "("    a character valid unescaped in a host, percent-escaped in a path
\*   "%28"  the percent-escape of "("
URLChars == {"a", "/", "(", "%28"}

Schemes == {"sqlite3", "ncruces-sqlite3", "invalid-scheme"}

\* Raw x-migrations-table values; "my+table" is the query escape of "my table".
TableTexts == {"", "custom_migrations", "my+table"}

\* Raw x-no-tx-wrap values.
NoTxWrapTexts == {"", "true", "0", "yes"}

\* Raw x-tx-mode values.
TxModeTexts == {"", "DEFERRED", "IMMEDIATE", "EXCLUSIVE", "deferred"}

SeqsUpTo(S, n) == UNION {[1..k -> S] : k \in 0..n}

URLs ==
    [scheme : Schemes, rest : SeqsUpTo(URLChars, MaxURLLen),
     table : TableTexts, notx : NoTxWrapTexts, txmode : TxModeTexts]

\* The path of the one database the Drivers of the model share.
DbName == <<"/", "a">>

\* sqlite3:///a, the URL with no parameters.
DefaultURL ==
    [scheme |-> "sqlite3", rest |-> DbName,
     table |-> "", notx |-> "", txmode |-> ""]

\* DefaultConfig(): no database name, table schema_migrations, TxMode
\* DEFERRED, transactions wrapped.
DefaultConfig ==
    [DatabaseName |-> <<>>, MigrationsTable |-> "schema_migrations",
     NoTxWrap |-> FALSE, TxMode |-> "DEFERRED"]

\* The configurations of Drivers opened on the shared database and ledger.
Configs ==
    [DatabaseName : {DbName}, MigrationsTable : {"schema_migrations"},
     NoTxWrap : BOOLEAN, TxMode : TxModes]

\* The nil *Config returned next to an error.
NilConfig ==
    [DatabaseName |-> <<>>, MigrationsTable |-> "",
     NoTxWrap |-> FALSE, TxMode |-> ""]

\* url.Parse splits the text after "scheme://" at its first "/": what is
\* before it is the authority, the rest is the path.
FirstSlash(s) ==
    LET ks == {k \in 1..Len(s) : s[k] = "/"}
    IN  IF ks = {} THEN Len(s) + 1
        ELSE CHOOSE k \in ks : \A j \in ks : k <= j

Authority(s) == SubSeq(s, 1, FirstSlash(s) - 1)

RawPath(s) == SubSeq(s, FirstSlash(s), Len(s))

\* url.Parse rejects a percent-escape of an ASCII character in the host.
ValidHost(h) == \A k \in 1..Len(h) : h[k] # "%28"

\* url.Parse decodes the percent-escapes of the path.
Unescape(s) == [k \in 1..Len(s) |-> IF s[k] = "%28" THEN "(" ELSE s[k]]

\* (*URL).EscapedPath with no RawPath: every character outside the path's
\* safe set is percent-escaped.
EscapedPath(s) == [k \in 1..Len(s) |-> IF s[k] = "(" THEN "%28" ELSE s[k]]

\* url.ParseQuery decodes "+" to a space; Values.Encode writes it back.
QueryUnescape(t) == IF t = "my+table" THEN "my table" ELSE t

QueryEscape(t) == IF t = "my table" THEN "my+table" ELSE t

\* strconv.ParseBool on the raw values above: <<value, ok>>.
ParseBool(t) ==
    IF t = "true" THEN <<TRUE, TRUE>>
    ELSE IF t = "0" THEN <<FALSE, TRUE>>
    ELSE <<FALSE, FALSE>>

\* strings.ToUpper on transaction mode names.
ToUpper(t) == IF t = "deferred" THEN "DEFERRED" ELSE t

\* A ParseConfig that takes any x-tx-mode text as the mode.
ParseConfigAnyMode(u) ==
    LET host == Authority(u.rest)
        name == host \o Unescape(RawPath(u.rest))
        table == QueryUnescape(u.table)
        fail(msg) == [err |-> msg, config |-> NilConfig]
    IN  IF ~ValidHost(host) THEN fail("invalid URL")
        ELSE IF u.scheme \notin {"sqlite3", "ncruces-sqlite3"}
        THEN fail("invalid sqlite3 scheme")
        ELSE IF name = <<>> /\ host = <<>> THEN fail("empty database path")
        ELSE IF u.notx # "" /\ ~ParseBool(u.notx)[2]
        THEN fail("invalid x-no-tx-wrap value")
        ELSE [err |-> "nil",
              config |->
                  [DatabaseName |-> name,
                   MigrationsTable |->
                       IF table # "" THEN table
                       ELSE DefaultConfig.MigrationsTable,
                   NoTxWrap |->
                       IF u.notx # "" THEN ParseBool(u.notx)[1]
                       ELSE DefaultConfig.NoTxWrap,
                   TxMode |-> u.txmode]]

\* ParseConfig(rawurl): the Config, or the message of the error.
ParseConfig(u) ==
    LET host == Authority(u.rest)
        name == host \o Unescape(RawPath(u.rest))
        table == QueryUnescape(u.table)
        fail(msg) == [err |-> msg, config |-> NilConfig]
    IN  IF ~ValidHost(host) THEN fail("invalid URL")
        ELSE IF u.scheme \notin {"sqlite3", "ncruces-sqlite3"}
        THEN fail("invalid sqlite3 scheme")
        ELSE IF name = <<>> /\ host = <<>> THEN fail("empty database path")
        ELSE IF u.notx # "" /\ ~ParseBool(u.notx)[2]
        THEN fail("invalid x-no-tx-wrap value")
        ELSE IF u.txmode \notin {""} \cup TxModes
        THEN fail("invalid transaction mode")
        ELSE [err |-> "nil",
              config |->
                  [DatabaseName |-> name,
                   MigrationsTable |->
                       IF table # "" THEN table
                       ELSE DefaultConfig.MigrationsTable,
                   NoTxWrap |->
                       IF u.notx # "" THEN ParseBool(u.notx)[1]
                       ELSE DefaultConfig.NoTxWrap,
                   TxMode |->
                       IF u.txmode # "" THEN u.txmode
                       ELSE DefaultConfig.TxMode]]

\* (*Config).Validate(): the message of the error, or "nil".
Validate(c) ==
    IF c.DatabaseName = <<>> THEN "database name is required"
    ELSE IF c.MigrationsTable = "" THEN "migrations table name is required"
    ELSE IF c.TxMode \notin TxModes THEN "invalid transaction mode"
    ELSE "nil"

\* url.Values{}: no parameter set.
NoParams == [table |-> "", notx |-> "", txmode |-> ""]

WithMigrationsTable(params, table) == [params EXCEPT !.table = table]

WithNoTxWrap(params) == [params EXCEPT !.notx = "true"]

WithTxMode(params, mode) == [params EXCEPT !.txmode = ToUpper(mode)]

\* BuildURL(dbPath, options...): url.URL{Scheme: "sqlite3", Path: dbPath}
\* with the encoded parameters, rendered by String(): "sqlite3://" and the
\* escaped path when the path is not empty.
BuildURL(dbPath, params) ==
    [scheme |-> "sqlite3", rest |-> EscapedPath(dbPath),
     table |-> QueryEscape(params.table), notx |-> params.notx,
     txmode |-> params.txmode]

\* The URL BuildURL gives for the four fields of a Config.
URLOf(c) ==
    LET table == WithMigrationsTable(NoParams, c.MigrationsTable)
        notx == IF c.NoTxWrap THEN WithNoTxWrap(table) ELSE table
    IN  BuildURL(c.DatabaseName, WithTxMode(notx, c.TxMode))

\* The statements a migration is made of: opaque SQL, seen only by its effect.
\*   CREATE TABLE test_table (id INTEGER PRIMARY KEY)
CreateStmt == [op |-> "create", id |-> 0]

\*   INSERT INTO test_table (id) VALUES (1)
InsertStmt == [op |-> "insert", id |-> 1]

\*   INVALID SQL HERE
InvalidStmt == [op |-> "invalid", id |-> 0]

\*   CREATE TABLE IF NOT EXISTS ..., CREATE INDEX IF NOT EXISTS ...: the only
\*   statements of the embedded migrations; they create what is missing
EnsureStmt == [op |-> "ensure", id |-> 0]

\* The migration of TestTransactionHandling: two valid statements, then one
\* that fails.
PartialMigration == <<CreateStmt, InsertStmt, InvalidStmt>>

\* The migrations handed to Run: the empty one, the tests' texts and their
\* parts (a CREATE or an INSERT fails or not with the state of the database).
Migrations ==
    {<<>>, <<CreateStmt>>, <<InsertStmt>>, <<CreateStmt, InsertStmt>>,
     PartialMigration}

\* A returned call.  seq flips on every return so that two equal calls in a
\* row are still two steps.
\* version, dirty: the arguments of SetVersion, the result of Version.
\* done: the statements a Run executed before it returned.
Returned(i, op, err, v, d, n) ==
    [seq |-> 1 - last.seq, inst |-> i, op |-> op, err |-> err,
     version |-> v, dirty |-> d, done |-> n]

NoCall == [seq |-> 0, inst |-> 0, op |-> "none", err |-> "nil",
           version |-> NoVersion, dirty |-> FALSE, done |-> 0]

NoRun == [rest |-> <<>>, done |-> 0]

\* ------------------------------------------------------------ the ledger

Row(v, d) == [version |-> v, dirty |-> d]

\* Version with ORDER BY version ASC: the lowest row.
VersionOfLowest(table, rows) ==
    IF ~table \/ rows = {}
    THEN [version |-> NoVersion, dirty |-> FALSE]
    ELSE LET low == CHOOSE r \in rows : \A q \in rows : r.version <= q.version
         IN  [version |-> low.version, dirty |-> low.dirty]

\* Driver.Version: SELECT version, dirty ... ORDER BY version DESC LIMIT 1;
\* sql.ErrNoRows and "no such table" both give (-1, false, nil).
VersionOf(table, rows) ==
    IF ~table \/ rows = {}
    THEN [version |-> NoVersion, dirty |-> FALSE]
    ELSE LET top == CHOOSE r \in rows : \A q \in rows : q.version <= r.version
         IN  [version |-> top.version, dirty |-> top.dirty]

\* INSERT INTO ledger (version, dirty): fails on a missing table and on a
\* version already present (version INTEGER PRIMARY KEY).
InsertVersion(table, rows, v, d) ==
    IF ~table \/ (\E r \in rows : r.version = v)
    THEN [ok |-> FALSE, rows |-> rows]
    ELSE [ok |-> TRUE, rows |-> rows \cup {Row(v, d)}]

\* SetVersion without the DELETE of its clean branch.
SetVersionAppends(table, rows, v, d) == InsertVersion(table, rows, v, d)

\* Driver.SetVersion on an open connection: the ledger rows it leaves and
\* whether it returned nil.
\*   dirty: one INSERT, existing rows untouched.
\*   clean: one transaction, DELETE FROM ledger then INSERT; rolled back whole
\*          when a statement fails.
SetVersionRows(table, rows, v, d) ==
    IF d
    THEN InsertVersion(table, rows, v, TRUE)
    ELSE IF ~table
         THEN [ok |-> FALSE, rows |-> rows]
         ELSE InsertVersion(table, {}, v, FALSE)

\* ------------------------------------------------- the migrations' SQL

UserDb(table, rows) == [ok |-> TRUE, table |-> table, rows |-> rows]

Failed(table, rows) == [ok |-> FALSE, table |-> table, rows |-> rows]

\* One statement against the user table, as the engine executes it:
\* CREATE TABLE fails when the table exists, INSERT fails without the table
\* or on a duplicate primary key, invalid SQL always fails.  A failed
\* statement changes nothing.
ExecStatement(table, rows, s) ==
    CASE s.op = "create" ->
           IF table THEN Failed(table, rows) ELSE UserDb(TRUE, {})
      [] s.op = "ensure" -> UserDb(TRUE, rows)
      [] s.op = "insert" ->
           IF ~table \/ s.id \in rows
           THEN Failed(table, rows)
           ELSE UserDb(table, rows \cup {s.id})
      [] OTHER -> Failed(table, rows)

\* Exec of a multi-statement text: statements run in order and execution
\* stops at the first failure, the earlier effects still in place.
\* The result also counts the statements executed (done).
RECURSIVE ExecAll(_, _, _, _)
ExecAll(table, rows, m, n) ==
    IF m = <<>>
    THEN [ok |-> TRUE, table |-> table, rows |-> rows, done |-> n]
    ELSE LET r == ExecStatement(table, rows, Head(m))
         IN  IF r.ok
             THEN ExecAll(r.table, r.rows, Tail(m), n + 1)
             ELSE [ok |-> FALSE, table |-> table, rows |-> rows, done |-> n]

\* executeWithTransaction without the Rollback: the statements before the
\* failing one stay.
executeWithTransactionNoRollback(table, rows, m) == ExecAll(table, rows, m, 0)

\* Driver.executeWithTransaction: Begin, PRAGMA <TxMode> unless DEFERRED (a
\* pragma the engine does not know: no effect, no error), Exec, Commit; the
\* deferred Rollback undoes everything when Exec fails.
executeWithTransaction(table, rows, m) ==
    LET r == ExecAll(table, rows, m, 0)
    IN  IF r.ok
        THEN r
        ELSE [ok |-> FALSE, table |-> table, rows |-> rows, done |-> r.done]

\* Error of a call that reaches the database: d.db == nil is caught by the
\* Driver, a closed *sql.DB fails inside database/sql.
ConnErr(i) ==
    CASE conn[i] = "nil" -> "ErrDatabaseClosed"
      [] conn[i] = "closed" -> "error"
      [] OTHER -> "nil"

\* ------------------------------------------------------- Driver actions

\* Driver.SetVersion(v, d)
SetVersion(i, v, d) ==
    /\ pc[i] = "idle"
    /\ LET r == SetVersionRows(ledgerTable, ledger, v, d)
           err == IF ConnErr(i) # "nil" THEN ConnErr(i)
                  ELSE IF r.ok THEN "nil" ELSE "error"
       IN  /\ ledger' = IF err = "nil" THEN r.rows ELSE ledger
           /\ last' = Returned(i, "SetVersion", err, v, d, 0)
    /\ UNCHANGED <<ledgerTable, lockTable, lockRows, userTable, userRows,
                   conn, cfg, pc, todo, dropping, elapsed, holder>>

\* Driver.Version()
Version(i) ==
    /\ pc[i] = "idle"
    /\ LET r == VersionOf(ledgerTable, ledger)
       IN  last' = IF ConnErr(i) # "nil"
                   THEN Returned(i, "Version", ConnErr(i), 0, FALSE, 0)
                   ELSE Returned(i, "Version", "nil", r.version, r.dirty, 0)
    /\ UNCHANGED <<dbVars, conn, cfg, pc, todo, dropping, elapsed, holder>>

\* executeWithoutTransaction undoing the migration when a statement fails, as
\* a transaction around it would.
executeWithoutTransactionUndoes(i, stmts, n) ==
    LET r == ExecStatement(userTable, userRows, Head(stmts))
    IN  /\ userTable' = (r.ok /\ r.table)
        /\ userRows' = IF r.ok THEN r.rows ELSE {}
        /\ IF r.ok /\ Len(stmts) > 1
           THEN /\ pc' = [pc EXCEPT ![i] = "run"]
                /\ todo' = [todo EXCEPT ![i] = [rest |-> Tail(stmts), done |-> n + 1]]
                /\ UNCHANGED last
           ELSE /\ pc' = [pc EXCEPT ![i] = "idle"]
                /\ todo' = [todo EXCEPT ![i] = NoRun]
                /\ last' = IF r.ok
                           THEN Returned(i, "Run", "nil", NoVersion, FALSE, n + 1)
                           ELSE Returned(i, "Run", "error", NoVersion, FALSE, n)

\* Driver.executeWithoutTransaction, one statement at a time: db.Exec runs the
\* statements in autocommit mode, so each one is committed as it ends and
\* other connections may act between two of them.  n statements are done.
executeWithoutTransaction(i, stmts, n) ==
    LET r == ExecStatement(userTable, userRows, Head(stmts))
    IN  /\ userTable' = r.table
        /\ userRows' = r.rows
        /\ IF r.ok /\ Len(stmts) > 1
           THEN /\ pc' = [pc EXCEPT ![i] = "run"]
                /\ todo' = [todo EXCEPT ![i] = [rest |-> Tail(stmts), done |-> n + 1]]
                /\ UNCHANGED last
           ELSE /\ pc' = [pc EXCEPT ![i] = "idle"]
                /\ todo' = [todo EXCEPT ![i] = NoRun]
                /\ last' = IF r.ok
                           THEN Returned(i, "Run", "nil", NoVersion, FALSE, n + 1)
                           ELSE Returned(i, "Run", "error", NoVersion, FALSE, n)

\* Driver.Run(migration)
Run(i, m) ==
    /\ pc[i] = "idle"
    /\ IF ConnErr(i) = "ErrDatabaseClosed" \/ m = <<>> \/ ConnErr(i) = "error"
       THEN \* d.db == nil; an empty migration is valid; a closed connection fails
            /\ last' = Returned(i, "Run",
                          IF ConnErr(i) = "ErrDatabaseClosed" THEN "ErrDatabaseClosed"
                          ELSE IF m = <<>> THEN "nil" ELSE "error",
                          NoVersion, FALSE, 0)
            /\ UNCHANGED <<userTable, userRows, pc, todo>>
       ELSE IF cfg[i].NoTxWrap
            THEN executeWithoutTransaction(i, m, 0)
            ELSE LET r == executeWithTransaction(userTable, userRows, m)
                 IN  /\ userTable' = r.table
                     /\ userRows' = r.rows
                     /\ last' = Returned(i, "Run", IF r.ok THEN "nil" ELSE "error",
                                         NoVersion, FALSE, r.done)
                     /\ UNCHANGED <<pc, todo>>
    /\ UNCHANGED <<ledgerTable, ledger, lockTable, lockRows,
                   conn, cfg, dropping, elapsed, holder>>

\* The rest of a non-transactional Run in progress.
RunNext(i) ==
    /\ pc[i] = "run"
    /\ executeWithoutTransaction(i, todo[i].rest, todo[i].done)
    /\ UNCHANGED <<ledgerTable, ledger, lockTable, lockRows,
                   conn, cfg, dropping, elapsed, holder>>

\* The tables sqlite_master lists (name NOT LIKE 'sqlite_%').
ExistingTables ==
    {t \in {"ledger", "lock", "user"} :
        \/ t = "ledger" /\ ledgerTable
        \/ t = "lock" /\ lockTable
        \/ t = "user" /\ userTable}

\* A Drop that spares the lock table.
DropTableKeepsLock(t) ==
    /\ ledgerTable' = (ledgerTable /\ t # "ledger")
    /\ ledger' = IF t = "ledger" THEN {} ELSE ledger
    /\ UNCHANGED <<lockTable, lockRows>>
    /\ userTable' = (userTable /\ t # "user")
    /\ userRows' = IF t = "user" THEN {} ELSE userRows

\* DROP TABLE IF EXISTS t: the table and its rows are gone.
DropTable(t) ==
    /\ ledgerTable' = (ledgerTable /\ t # "ledger")
    /\ ledger' = IF t = "ledger" THEN {} ELSE ledger
    /\ lockTable' = (lockTable /\ t # "lock")
    /\ lockRows' = IF t = "lock" THEN {} ELSE lockRows
    /\ userTable' = (userTable /\ t # "user")
    /\ userRows' = IF t = "user" THEN {} ELSE userRows

\* Driver.Drop(): list the tables, then drop them one statement at a time.
Drop(i) ==
    /\ pc[i] = "idle"
    /\ IF ConnErr(i) # "nil" \/ ExistingTables = {}
       THEN /\ last' = Returned(i, "Drop", ConnErr(i), NoVersion, FALSE, 0)
            /\ UNCHANGED <<pc, dropping>>
       ELSE /\ pc' = [pc EXCEPT ![i] = "drop"]
            /\ dropping' = [dropping EXCEPT ![i] = ExistingTables]
            /\ UNCHANGED last
    /\ UNCHANGED <<dbVars, conn, cfg, todo, elapsed, holder>>

\* One DROP TABLE IF EXISTS of a Drop in progress; Drop returns nil after the
\* last one.
DropNext(i) ==
    /\ pc[i] = "drop"
    /\ \E t \in dropping[i] :
          /\ DropTable(t)
          /\ dropping' = [dropping EXCEPT ![i] = @ \ {t}]
          /\ IF dropping[i] = {t}
             THEN /\ pc' = [pc EXCEPT ![i] = "idle"]
                  /\ last' = Returned(i, "Drop", "nil", NoVersion, FALSE, 0)
             ELSE UNCHANGED <<pc, last>>
    /\ UNCHANGED <<conn, cfg, todo, elapsed, holder>>

UnlockedRow == [id |-> LockRowId, locked |-> FALSE]

LockedRow == [id |-> LockRowId, locked |-> TRUE]

\* A seed that inserts a row of its own whatever the table holds.
SeedLockRowAgain(rows) ==
    rows \cup {[id |-> LockRowId + Cardinality(rows), locked |-> FALSE]}

\* A seed written as INSERT OR REPLACE: the row is reset to unlocked.
SeedLockRowReplaces(rows) ==
    {r \in rows : r.id # LockRowId} \cup {UnlockedRow}

\* INSERT OR IGNORE INTO lock (id, locked, ...) VALUES (1, FALSE, ...): the
\* primary key keeps a row already there.
SeedLockRow(rows) ==
    IF \E r \in rows : r.id = LockRowId THEN rows ELSE rows \cup {UnlockedRow}

\* Driver.Open(url): ParseConfig and Validate, which fail before any
\* connection exists; then open and ping the database and initializeDatabase,
\* statement by statement, here its first statement, CREATE TABLE IF NOT
\* EXISTS for the ledger.  Instance i stands for the Driver Open returns.
Open(i, u) ==
    LET parse == ParseConfig(u)
        invalid == IF parse.err # "nil" THEN parse.err
                   ELSE Validate(parse.config)
    IN  /\ pc[i] = "idle" /\ conn[i] # "open"
        /\ IF invalid # "nil"
           THEN /\ last' = Returned(i, "Open", invalid, NoVersion, FALSE, 0)
                /\ UNCHANGED <<ledgerTable, cfg, pc>>
           ELSE /\ cfg' = [cfg EXCEPT ![i] = parse.config]
                /\ ledgerTable' = TRUE
                /\ pc' = [pc EXCEPT ![i] = "open_table"]
                /\ UNCHANGED last
        /\ UNCHANGED <<ledger, lockTable, lockRows, userTable, userRows,
                       conn, todo, dropping, elapsed, holder>>

\* initializeDatabase: CREATE TABLE IF NOT EXISTS for the lock table.
OpenCreateLockTable(i) ==
    /\ pc[i] = "open_table"
    /\ lockTable' = TRUE
    /\ pc' = [pc EXCEPT ![i] = "open_row"]
    /\ UNCHANGED <<ledgerTable, ledger, lockRows, userTable, userRows,
                   conn, cfg, todo, dropping, elapsed, holder, last>>

\* initializeDatabase: INSERT OR IGNORE of the lock row; Open then returns
\* the Driver, or closes the connection and fails when the table is gone.
OpenSeedLockRow(i) ==
    /\ pc[i] = "open_row"
    /\ pc' = [pc EXCEPT ![i] = "idle"]
    /\ IF lockTable
       THEN /\ lockRows' = SeedLockRow(lockRows)
            /\ conn' = [conn EXCEPT ![i] = "open"]
            /\ last' = Returned(i, "Open", "nil", NoVersion, FALSE, 0)
       ELSE /\ last' = Returned(i, "Open", "error", NoVersion, FALSE, 0)
            /\ UNCHANGED <<lockRows, conn>>
    /\ UNCHANGED <<ledgerTable, ledger, lockTable, userTable, userRows,
                   cfg, todo, dropping, elapsed, holder>>

\* A Driver configuration that keeps the NoTxWrap and TxMode it is given.
driverConfigAsGiven(c) ==
    IF c = NilConfig THEN DefaultConfig
    ELSE [c EXCEPT !.MigrationsTable =
                       IF @ = "" THEN DefaultConfig.MigrationsTable ELSE @]

\* WithInstance: driverConfig := DefaultConfig(), into which only a
\* non-empty MigrationsTable of the supplied config is copied.  NilConfig
\* stands for a nil *Config and for the zero Config alike: the code treats
\* both the same way.
driverConfig(c) ==
    IF c # NilConfig /\ c.MigrationsTable # ""
    THEN [DefaultConfig EXCEPT !.MigrationsTable = c.MigrationsTable]
    ELSE DefaultConfig

\* Driver.WithInstance(instance, config): fails unless the instance is a
\* *sql.DB (isDB); otherwise initializeDatabase with driverConfig and the
\* Driver is returned.  Instance i stands for that Driver.  With the default
\* table name the statements of initializeDatabase are those of Open, taken
\* one at a time from here on; with another name they create tables the
\* model does not keep, and the call returns at once.
WithInstance(i, isDB, c) ==
    LET config == driverConfig(c)
    IN  /\ pc[i] = "idle" /\ conn[i] # "open"
        /\ IF ~isDB
           THEN /\ last' = Returned(i, "WithInstance", "error",
                                    NoVersion, FALSE, 0)
                /\ UNCHANGED <<ledgerTable, cfg, pc, conn>>
           ELSE IF config.MigrationsTable = DefaultConfig.MigrationsTable
           THEN /\ cfg' = [cfg EXCEPT ![i] = config]
                /\ ledgerTable' = TRUE
                /\ pc' = [pc EXCEPT ![i] = "open_table"]
                /\ UNCHANGED <<last, conn>>
           ELSE /\ cfg' = [cfg EXCEPT ![i] = config]
                /\ conn' = [conn EXCEPT ![i] = "open"]
                /\ last' = Returned(i, "WithInstance", "nil",
                                    NoVersion, FALSE, 0)
                /\ UNCHANGED <<ledgerTable, pc>>
        /\ UNCHANGED <<ledger, lockTable, lockRows, userTable, userRows,
                       todo, dropping, elapsed, holder>>

\* A Close that reports a connection already closed.
CloseReportsClosed(i) ==
    /\ pc[i] = "idle"
    /\ conn' = [conn EXCEPT ![i] = IF @ = "nil" THEN "nil" ELSE "closed"]
    /\ last' = Returned(i, "Close",
                        IF conn[i] = "closed" THEN "ErrDatabaseClosed" ELSE "nil",
                        NoVersion, FALSE, 0)
    /\ UNCHANGED <<dbVars, cfg, pc, todo, dropping, elapsed, holder>>

\* A Close that gives up the lock row with the connection.
CloseReleasesLock(i) ==
    /\ pc[i] = "idle"
    /\ conn' = [conn EXCEPT ![i] = IF @ = "nil" THEN "nil" ELSE "closed"]
    /\ lockRows' = IF conn[i] = "open" /\ lockTable
                   THEN {r \in lockRows : r.id # LockRowId} ELSE lockRows
    /\ last' = Returned(i, "Close", "nil", NoVersion, FALSE, 0)
    /\ UNCHANGED <<ledgerTable, ledger, lockTable, userTable, userRows,
                   cfg, pc, todo, dropping, elapsed, holder>>

\* Driver.Close(): nil without a connection, else db.Close(), which leaves
\* d.db set.
Close(i) ==
    /\ pc[i] = "idle"
    /\ conn' = [conn EXCEPT ![i] = IF @ = "nil" THEN "nil" ELSE "closed"]
    /\ last' = Returned(i, "Close", "nil", NoVersion, FALSE, 0)
    /\ UNCHANGED <<dbVars, cfg, pc, todo, dropping, elapsed, holder>>

\* ---------------------------------------------------------- LockManager

\* tryAcquire whose UPDATE lacks "AND locked = FALSE".
tryAcquireUnconditional(table, rows) ==
    IF ~table
    THEN [err |-> TRUE, acquired |-> FALSE, rows |-> rows]
    ELSE [err |-> FALSE, acquired |-> TRUE,
          rows |-> {r \in rows : r.id # LockRowId} \cup {LockedRow}]

\* tryAcquire without the INSERT OR IGNORE of the lock row.
tryAcquireNoSeed(table, rows) ==
    IF ~table
    THEN [err |-> TRUE, acquired |-> FALSE, rows |-> rows]
    ELSE IF UnlockedRow \in rows
         THEN [err |-> FALSE, acquired |-> TRUE,
               rows |-> (rows \ {UnlockedRow}) \cup {LockedRow}]
         ELSE [err |-> FALSE, acquired |-> FALSE, rows |-> rows]

\* LockManager.tryAcquire, one transaction: INSERT OR IGNORE the unlocked
\* row, UPDATE ... SET locked = TRUE WHERE id = 1 AND locked = FALSE, commit
\* when the UPDATE changed a row.  With no row changed it returns false and
\* the deferred Rollback undoes the INSERT; a missing table is an error.
tryAcquire(table, rows) ==
    IF ~table
    THEN [err |-> TRUE, acquired |-> FALSE, rows |-> rows]
    ELSE LET seeded == SeedLockRow(rows)
         IN  IF UnlockedRow \in seeded
             THEN [err |-> FALSE, acquired |-> TRUE,
                   rows |-> (seeded \ {UnlockedRow}) \cup {LockedRow}]
             ELSE [err |-> FALSE, acquired |-> FALSE, rows |-> rows]

\* A deadline that never passes.
DeadlineNever(e) == FALSE

\* time.Now().After(deadline), the deadline 15 s after Acquire created the
\* lock table: true once the poll intervals slept add up to the timeout.
DeadlinePassed(e) == e >= TimeoutPolls

\* Driver.Lock(): ErrDatabaseClosed without a connection, else
\* LockManager.Acquire up to its loop: createLockTable and the deadline.
Lock(i) ==
    /\ pc[i] = "idle"
    /\ IF ConnErr(i) # "nil"
       THEN /\ last' = Returned(i, "Lock", ConnErr(i), NoVersion, FALSE, 0)
            /\ UNCHANGED <<lockTable, pc, elapsed>>
       ELSE /\ lockTable' = TRUE
            /\ elapsed' = [elapsed EXCEPT ![i] = 0]
            /\ pc' = [pc EXCEPT ![i] = "acquire"]
            /\ UNCHANGED last
    /\ UNCHANGED <<ledgerTable, ledger, lockRows, userTable, userRows,
                   conn, cfg, todo, dropping, holder>>

\* A loop that never looks at its context.
AcquirePollIgnoresContext(i) ==
    /\ pc[i] = "acquire"
    /\ LET r == tryAcquire(lockTable, lockRows)
       IN  IF DeadlinePassed(elapsed[i])
           THEN /\ last' = Returned(i, "Lock", "ErrLockTimeout", NoVersion, FALSE, 0)
                /\ pc' = [pc EXCEPT ![i] = "idle"]
                /\ UNCHANGED <<lockRows, holder>>
           ELSE IF r.err
           THEN /\ last' = Returned(i, "Lock", "error", NoVersion, FALSE, 0)
                /\ pc' = [pc EXCEPT ![i] = "idle"]
                /\ UNCHANGED <<lockRows, holder>>
           ELSE IF r.acquired
           THEN /\ last' = Returned(i, "Lock", "nil", NoVersion, FALSE, 0)
                /\ pc' = [pc EXCEPT ![i] = "idle"]
                /\ lockRows' = r.rows
                /\ holder' = [holder EXCEPT ![i] = TRUE]
           ELSE /\ pc' = [pc EXCEPT ![i] = "sleep"]
                /\ UNCHANGED <<lockRows, holder, last>>
    /\ UNCHANGED <<ledgerTable, ledger, lockTable, userTable, userRows,
                   conn, cfg, todo, dropping, elapsed>>

\* One turn of the loop of Acquire: the context check, the deadline check,
\* then tryAcquire.  (Driver.Lock passes context.Background(), which is
\* never done.)
AcquirePoll(i) ==
    /\ pc[i] = "acquire"
    /\ LET r == tryAcquire(lockTable, lockRows)
       IN  IF ctx[i] = "cancelled"
           THEN /\ last' = Returned(i, "Lock", "context canceled", NoVersion, FALSE, 0)
                /\ pc' = [pc EXCEPT ![i] = "idle"]
                /\ UNCHANGED <<lockRows, holder>>
           ELSE IF DeadlinePassed(elapsed[i])
           THEN /\ last' = Returned(i, "Lock", "ErrLockTimeout", NoVersion, FALSE, 0)
                /\ pc' = [pc EXCEPT ![i] = "idle"]
                /\ UNCHANGED <<lockRows, holder>>
           ELSE IF r.err
           THEN /\ last' = Returned(i, "Lock", "error", NoVersion, FALSE, 0)
                /\ pc' = [pc EXCEPT ![i] = "idle"]
                /\ UNCHANGED <<lockRows, holder>>
           ELSE IF r.acquired
           THEN /\ last' = Returned(i, "Lock", "nil", NoVersion, FALSE, 0)
                /\ pc' = [pc EXCEPT ![i] = "idle"]
                /\ lockRows' = r.rows
                /\ holder' = [holder EXCEPT ![i] = TRUE]
           ELSE /\ pc' = [pc EXCEPT ![i] = "sleep"]
                /\ UNCHANGED <<lockRows, holder, last>>
    /\ UNCHANGED <<ledgerTable, ledger, lockTable, userTable, userRows,
                   conn, cfg, todo, dropping, elapsed>>

Min(a, b) == IF a <= b THEN a ELSE b

\* time.Sleep(100 * time.Millisecond) of the loop: one poll interval, or
\* more when the sleeper is scheduled late.
Sleep(i) ==
    /\ pc[i] = "sleep"
    /\ \E d \in 1..(1 + MaxOversleep) :
          elapsed' = [elapsed EXCEPT ![i] = Min(@ + d, TimeoutPolls)]
    /\ pc' = [pc EXCEPT ![i] = "acquire"]
    /\ UNCHANGED <<dbVars, conn, cfg, todo, dropping, holder, last>>

\* An Unlock that fails when there is no lock table.
UnlockNeedsTable(i) ==
    /\ pc[i] = "idle"
    /\ IF ConnErr(i) # "nil" \/ ~lockTable
       THEN /\ last' = Returned(i, "Unlock",
                               IF ConnErr(i) # "nil" THEN ConnErr(i) ELSE "error",
                               NoVersion, FALSE, 0)
            /\ UNCHANGED <<pc, holder>>
       ELSE /\ pc' = [pc EXCEPT ![i] = "release"]
            /\ UNCHANGED <<holder, last>>
    /\ UNCHANGED <<dbVars, conn, cfg, todo, dropping, elapsed>>

\* Driver.Unlock(): ErrDatabaseClosed without a connection, else
\* LockManager.Release up to its SELECT EXISTS on sqlite_master: with no lock
\* table the lock counts as released.
Unlock(i) ==
    /\ pc[i] = "idle"
    /\ IF ConnErr(i) # "nil"
       THEN /\ last' = Returned(i, "Unlock", ConnErr(i), NoVersion, FALSE, 0)
            /\ UNCHANGED <<pc, holder>>
       ELSE IF ~lockTable
       THEN /\ last' = Returned(i, "Unlock", "nil", NoVersion, FALSE, 0)
            /\ holder' = [holder EXCEPT ![i] = FALSE]
            /\ UNCHANGED pc
       ELSE /\ pc' = [pc EXCEPT ![i] = "release"]
            /\ UNCHANGED <<holder, last>>
    /\ UNCHANGED <<dbVars, conn, cfg, todo, dropping, elapsed>>

\* DELETE FROM lock WHERE id = 1
ReleaseRows(rows) == {r \in rows : r.id # LockRowId}

\* The DELETE of Release; "no such table" and no row deleted are both nil.
ReleaseDelete(i) ==
    /\ pc[i] = "release"
    /\ lockRows' = IF lockTable THEN ReleaseRows(lockRows) ELSE lockRows
    /\ pc' = [pc EXCEPT ![i] = "idle"]
    /\ holder' = [holder EXCEPT ![i] = FALSE]
    /\ last' = Returned(i, "Unlock", "nil", NoVersion, FALSE, 0)
    /\ UNCHANGED <<ledgerTable, ledger, lockTable, userTable, userRows,
                   conn, cfg, todo, dropping, elapsed>>

\* An IsLocked that takes any lock row for a held lock.
IsLockedAnyRow(table, rows) ==
    IF ~table THEN [err |-> "error", locked |-> FALSE]
    ELSE [err |-> "nil", locked |-> \E r \in rows : r.id = LockRowId]

\* SELECT locked FROM lock WHERE id = 1: sql.ErrNoRows is (false, nil), a
\* missing table is an error.
IsLockedOf(table, rows) ==
    IF ~table THEN [err |-> "error", locked |-> FALSE]
    ELSE [err |-> "nil", locked |-> \E r \in rows : r.id = LockRowId /\ r.locked]

\* LockManager.IsLocked(ctx) of an opened Driver; the answer travels in the
\* result's boolean field.
IsLocked(i) ==
    /\ pc[i] = "idle" /\ conn[i] # "nil"
    /\ LET r == IsLockedOf(lockTable, lockRows)
       IN  last' = IF conn[i] = "closed"
                   THEN Returned(i, "IsLocked", "error", NoVersion, FALSE, 0)
                   ELSE Returned(i, "IsLocked", r.err, NoVersion, r.locked, 0)
    /\ UNCHANGED <<dbVars, conn, cfg, pc, todo, dropping, elapsed, holder>>

\* A ForceRelease that clears only the caller's own lock.
ForceReleaseOwnLock(i) ==
    /\ pc[i] = "idle" /\ conn[i] # "nil"
    /\ IF conn[i] = "closed" \/ ~lockTable
       THEN /\ last' = Returned(i, "ForceRelease", "error", NoVersion, FALSE, 0)
            /\ UNCHANGED lockRows
       ELSE /\ last' = Returned(i, "ForceRelease", "nil", NoVersion, FALSE, 0)
            /\ lockRows' = IF holder[i] THEN {} ELSE lockRows
    /\ UNCHANGED <<ledgerTable, ledger, lockTable, userTable, userRows,
                   conn, cfg, pc, todo, dropping, elapsed, holder>>

\* LockManager.ForceRelease(ctx) of an opened Driver: DELETE FROM lock.
ForceRelease(i) ==
    /\ pc[i] = "idle" /\ conn[i] # "nil"
    /\ IF conn[i] = "closed" \/ ~lockTable
       THEN /\ last' = Returned(i, "ForceRelease", "error", NoVersion, FALSE, 0)
            /\ UNCHANGED lockRows
       ELSE /\ last' = Returned(i, "ForceRelease", "nil", NoVersion, FALSE, 0)
            /\ lockRows' = {}
    /\ UNCHANGED <<ledgerTable, ledger, lockTable, userTable, userRows,
                   conn, cfg, pc, todo, dropping, elapsed, holder>>

\* --------------------------------------------------------- ledger model

\* No RunMigrations in progress.
NoRunner == [at |-> "none", v |-> 0]

\* No URL is being parsed.
NoParse ==
    [stage |-> "none", url |-> DefaultURL,
     first |-> [err |-> "nil", config |-> NilConfig],
     built |-> DefaultURL,
     second |-> [err |-> "nil", config |-> NilConfig]]

\* No transaction open.
\*   snapshot: the committed ledger rows when the transaction first wrote
\*   rows:     the ledger rows as the transaction sees them
\*   v:        the version its SetVersion was called with
NoTx == [open |-> FALSE, snapshot |-> {}, rows |-> {}, v |-> 0]

\* The caller of a Driver operation is not a MigrationRunner, parses no URL
\* and leaves contexts and transactions alone.
Direct == UNCHANGED <<rpc, rerr, parsed, ctx, tx>>

\* ------------------------------------- SetVersion(v, false), step by step
\* The clean branch of Driver.SetVersion as the database sees it: Begin,
\* DELETE, INSERT and Commit are four calls, and other connections act
\* between any two of them.

\* Statements sent with d.db.Exec instead of tx.Exec: each one is committed
\* as it ends.
txExecAutocommit(committed, pending) == pending

\* The committed rows after a statement of an open transaction that leaves
\* the rows `pending`: the statement is seen by the transaction alone.
txExec(committed, pending) == committed

\* Instance i holds the write lock of the database file: its transaction has
\* written and has not ended.
Writing(i) == tx[i].open /\ pc[i] \in {"tx_insert", "tx_commit"}

\* SetVersion(v, false) up to d.db.Begin(): a deferred transaction, which
\* touches the file at its first statement.
SetVersionBegin(i, v) ==
    /\ pc[i] = "idle"
    /\ IF ConnErr(i) # "nil"
       THEN /\ last' = Returned(i, "SetVersion", ConnErr(i), v, FALSE, 0)
            /\ UNCHANGED <<pc, tx>>
       ELSE /\ tx' = [tx EXCEPT ![i] = [NoTx EXCEPT !.open = TRUE, !.v = v]]
            /\ pc' = [pc EXCEPT ![i] = "tx_clear"]
            /\ UNCHANGED last
    /\ UNCHANGED <<dbVars, conn, cfg, todo, dropping, elapsed, holder,
                   rpc, rerr, parsed, ctx>>

\* tx.Exec("DELETE FROM ledger"): fails without the table, and with "database
\* is locked" while another connection holds the write lock; the deferred
\* Rollback then ends the transaction.
SetVersionClear(i) ==
    /\ pc[i] = "tx_clear"
    /\ IF ~ledgerTable \/ (\E j \in Inst \ {i} : Writing(j))
       THEN /\ tx' = [tx EXCEPT ![i] = NoTx]
            /\ pc' = [pc EXCEPT ![i] = "idle"]
            /\ last' = Returned(i, "SetVersion", "error", tx[i].v, FALSE, 0)
            /\ UNCHANGED ledger
       ELSE /\ tx' = [tx EXCEPT ![i].snapshot = ledger, ![i].rows = {}]
            /\ pc' = [pc EXCEPT ![i] = "tx_insert"]
            /\ ledger' = txExec(ledger, {})
            /\ UNCHANGED last
    /\ UNCHANGED <<ledgerTable, lockTable, lockRows, userTable, userRows,
                   conn, cfg, todo, dropping, elapsed, holder,
                   rpc, rerr, parsed, ctx>>

\* tx.Exec("INSERT INTO ledger (version, dirty) VALUES (v, false)"); a
\* failure is followed by the deferred Rollback.
SetVersionInsert(i) ==
    /\ pc[i] = "tx_insert"
    /\ LET r == InsertVersion(ledgerTable, tx[i].rows, tx[i].v, FALSE)
       IN  IF r.ok
           THEN /\ tx' = [tx EXCEPT ![i].rows = r.rows]
                /\ pc' = [pc EXCEPT ![i] = "tx_commit"]
                /\ ledger' = txExec(ledger, r.rows)
                /\ UNCHANGED last
           ELSE /\ tx' = [tx EXCEPT ![i] = NoTx]
                /\ pc' = [pc EXCEPT ![i] = "idle"]
                /\ ledger' = tx[i].snapshot
                /\ last' = Returned(i, "SetVersion", "error", tx[i].v, FALSE, 0)
    /\ UNCHANGED <<ledgerTable, lockTable, lockRows, userTable, userRows,
                   conn, cfg, todo, dropping, elapsed, holder,
                   rpc, rerr, parsed, ctx>>

\* tx.Commit(): the rows of the transaction become the committed ledger, and
\* SetVersion returns nil.
SetVersionCommit(i) ==
    /\ pc[i] = "tx_commit"
    /\ ledger' = tx[i].rows
    /\ tx' = [tx EXCEPT ![i] = NoTx]
    /\ pc' = [pc EXCEPT ![i] = "idle"]
    /\ last' = Returned(i, "SetVersion", "nil", tx[i].v, FALSE, 0)
    /\ UNCHANGED <<ledgerTable, lockTable, lockRows, userTable, userRows,
                   conn, cfg, todo, dropping, elapsed, holder,
                   rpc, rerr, parsed, ctx>>

\* Driver state of instances on which no call is in progress.
Idle ==
    /\ pc = [i \in Inst |-> "idle"]
    /\ todo = [i \in Inst |-> NoRun]
    /\ dropping = [i \in Inst |-> {}]
    /\ elapsed = [i \in Inst |-> 0]
    /\ holder = [i \in Inst |-> FALSE]
    /\ rpc = [i \in Inst |-> NoRunner]
    /\ rerr = [i \in Inst |-> "nil"]
    /\ ctx = [i \in Inst |-> "background"]
    /\ tx = [i \in Inst |-> NoTx]
    /\ last = NoCall

\* No call in progress and no URL being parsed.
Quiet == Idle /\ parsed = NoParse

\* The database after initializeDatabase on a fresh file: both tables
\* created, the lock row seeded unlocked, no user table.
Initialized ==
    /\ ledgerTable = TRUE /\ ledger = {}
    /\ lockTable = TRUE /\ lockRows = {UnlockedRow}
    /\ userTable = FALSE /\ userRows = {}

\* Drivers opened on one database with one URL, with or without
\* x-no-tx-wrap, the transaction mode left at its default.
InitLedger ==
    /\ Initialized
    /\ conn = [i \in Inst |-> "open"]
    /\ \E c \in Configs :
           /\ c.TxMode = DefaultConfig.TxMode
           /\ cfg = [i \in Inst |-> c]
    /\ Quiet

NextLedger ==
    \E i \in Inst :
        \/ \E v \in Versions, d \in BOOLEAN : SetVersion(i, v, d) /\ Direct
        \/ Version(i) /\ Direct
        \/ \E m \in Migrations : Run(i, m) /\ Direct
        \/ RunNext(i) /\ Direct

SpecLedger == InitLedger /\ [][NextLedger]_vars

\* ---------------------------------------------------------- schema model

\* Drivers opened by NewDriver (default configuration) on one database.
InitDefault ==
    /\ Initialized
    /\ conn = [i \in Inst |-> "open"]
    /\ cfg = [i \in Inst |-> ParseConfig(DefaultURL).config]
    /\ Quiet

\* The ledger under Drop, Close and Open: tables disappear and come back.
NextSchema ==
    \E i \in Inst :
        \/ \E v \in Versions, d \in BOOLEAN : SetVersion(i, v, d) /\ Direct
        \/ Version(i) /\ Direct
        \/ Drop(i) /\ Direct
        \/ DropNext(i) /\ Direct
        \/ Close(i) /\ Direct
        \/ Open(i, DefaultURL) /\ Direct
        \/ OpenCreateLockTable(i) /\ Direct
        \/ OpenSeedLockRow(i) /\ Direct

SpecSchema == InitDefault /\ [][NextSchema]_vars

\* ----------------------------------------------------------- close model

\* Drivers returned by Open next to Driver values never opened (&Driver{}).
InitClose ==
    /\ Initialized
    /\ conn \in [Inst -> {"nil", "open"}]
    /\ cfg = [i \in Inst |-> ParseConfig(DefaultURL).config]
    /\ Quiet

\* Every Driver method on Drivers closed or never opened, next to open
\* Drivers that write and read the ledger and close.
NextClose ==
    \E i \in Inst :
        \/ Close(i) /\ Direct
        \/ conn[i] # "open" /\ Lock(i) /\ Direct
        \/ conn[i] # "open" /\ Unlock(i) /\ Direct
        \/ conn[i] # "open" /\ Direct /\ \E m \in {<<>>, <<CreateStmt>>} : Run(i, m)
        \/ conn[i] # "open" /\ Drop(i) /\ Direct
        \/ \E v \in Versions, d \in BOOLEAN : SetVersion(i, v, d) /\ Direct
        \/ Version(i) /\ Direct

SpecClose == InitClose /\ [][NextClose]_vars

\* ------------------------------------------------------ lock table model

\* Drivers already opened on the database next to Driver values that have
\* yet to be opened on it.
InitLockTable ==
    /\ Initialized
    /\ conn \in [Inst -> {"nil", "open"}]
    /\ cfg = [i \in Inst |-> ParseConfig(DefaultURL).config]
    /\ Quiet

\* The lock table under every call that touches it, Unlock and ForceRelease
\* by any instance, holder or not.
NextLockTable ==
    \E i \in Inst :
        \/ Lock(i) /\ Direct
        \/ AcquirePoll(i) /\ Direct
        \/ Sleep(i) /\ Direct
        \/ Unlock(i) /\ Direct
        \/ ReleaseDelete(i) /\ Direct
        \/ ForceRelease(i) /\ Direct
        \/ Open(i, DefaultURL) /\ Direct
        \/ OpenCreateLockTable(i) /\ Direct
        \/ OpenSeedLockRow(i) /\ Direct

SpecLockTable == InitLockTable /\ [][NextLockTable]_vars

\* Instances that unlock only what they locked, and ask IsLocked.
NextHolders ==
    \E i \in Inst :
        \/ Lock(i) /\ Direct
        \/ AcquirePoll(i) /\ Direct
        \/ Sleep(i) /\ Direct
        \/ holder[i] /\ Unlock(i) /\ Direct
        \/ ReleaseDelete(i) /\ Direct
        \/ IsLocked(i) /\ Direct

SpecHolders == InitDefault /\ [][NextHolders]_vars

\* ------------------------------------------------------------ drop model

\* Open Drivers on a migrated database: the user table may exist, the ledger
\* may hold a version, the lock may be held.
InitDrop ==
    /\ ledgerTable = TRUE /\ ledger \in {{}, {Row(1, FALSE)}}
    /\ lockTable = TRUE /\ lockRows \in {{UnlockedRow}, {LockedRow}}
    /\ userTable \in BOOLEAN /\ userRows = {}
    /\ conn = [i \in Inst |-> "open"]
    /\ cfg = [i \in Inst |-> ParseConfig(DefaultURL).config]
    /\ Quiet

\* Drop among calls that create no table.
NextDrop ==
    \E i \in Inst :
        \/ Drop(i) /\ Direct
        \/ DropNext(i) /\ Direct
        \/ \E v \in Versions, d \in BOOLEAN : SetVersion(i, v, d) /\ Direct
        \/ Version(i) /\ Direct
        \/ Unlock(i) /\ Direct
        \/ ReleaseDelete(i) /\ Direct

SpecDrop == InitDrop /\ [][NextDrop]_vars

\* ---------------------------------------------------------- runner model

\* The up migration of version v read from the embedded source.
UpMigration(v) == <<EnsureStmt>>

\* The migration after the version the ledger reports.
NextVersion(cur) == IF cur = NoVersion THEN 1 ELSE cur + 1

At(stage, v) == [at |-> stage, v |-> v]

\* How RunMigrations goes on when the Driver call it made returns: to ok
\* after nil; after an error it keeps the error and goes to fail.
Proceed(i, ok, fail) ==
    /\ UNCHANGED <<parsed, ctx, tx>>
    /\ IF last' = last
       THEN UNCHANGED <<rpc, rerr>>
       ELSE IF last'.err = "nil"
            THEN rpc' = [rpc EXCEPT ![i] = ok] /\ UNCHANGED rerr
            ELSE /\ rpc' = [rpc EXCEPT ![i] = fail]
                 /\ rerr' = [rerr EXCEPT ![i] = last'.err]

\* migrate.NewWithSourceInstance: Driver.Open of the database URL.
RunnerOpen(i) ==
    /\ rpc[i].at = "open"
    /\ \/ Open(i, DefaultURL)
       \/ OpenCreateLockTable(i)
       \/ OpenSeedLockRow(i)
    /\ Proceed(i, At("lock", 0), At("done", 0))

\* m.Up(): Lock; a failure is returned after m.Close().
RunnerLock(i) ==
    /\ rpc[i].at = "lock"
    /\ \/ Lock(i)
       \/ AcquirePoll(i)
       \/ Sleep(i)
    /\ Proceed(i, At("version", 0), At("close", 0))

\* A runner that hands ErrNoChange on to its caller.
RunnerVersionReportsNoChange(i) ==
    /\ rpc[i].at = "version"
    /\ Version(i)
    /\ UNCHANGED <<parsed, ctx, tx>>
    /\ IF last'.err # "nil"
       THEN Proceed(i, At("unlock", 0), At("unlock", 0))
       ELSE IF last'.dirty
       THEN /\ rpc' = [rpc EXCEPT ![i] = At("unlock", 0)]
            /\ rerr' = [rerr EXCEPT ![i] = "ErrDirty"]
       ELSE IF last'.version >= LatestVersion
       THEN /\ rpc' = [rpc EXCEPT ![i] = At("unlock", 0)]
            /\ rerr' = [rerr EXCEPT ![i] = "ErrNoChange"]
       ELSE /\ rpc' = [rpc EXCEPT ![i] = At("set_dirty", NextVersion(last'.version))]
            /\ UNCHANGED rerr

\* m.Up(): read Version; a dirty ledger is an error, a ledger at the latest
\* version is ErrNoChange, which RunMigrations takes as success.
RunnerVersion(i) ==
    /\ rpc[i].at = "version"
    /\ Version(i)
    /\ UNCHANGED <<parsed, ctx, tx>>
    /\ IF last'.err # "nil"
       THEN Proceed(i, At("unlock", 0), At("unlock", 0))
       ELSE IF last'.dirty
       THEN /\ rpc' = [rpc EXCEPT ![i] = At("unlock", 0)]
            /\ rerr' = [rerr EXCEPT ![i] = "ErrDirty"]
       ELSE IF last'.version >= LatestVersion
       THEN /\ rpc' = [rpc EXCEPT ![i] = At("unlock", 0)]
            /\ UNCHANGED rerr
       ELSE /\ rpc' = [rpc EXCEPT ![i] = At("set_dirty", NextVersion(last'.version))]
            /\ UNCHANGED rerr

\* For a pending migration v: SetVersion(v, true).
RunnerSetDirty(i) ==
    /\ rpc[i].at = "set_dirty"
    /\ SetVersion(i, rpc[i].v, TRUE)
    /\ Proceed(i, At("run", rpc[i].v), At("unlock", 0))

\* For a pending migration v: Run.
RunnerRun(i) ==
    /\ rpc[i].at = "run"
    /\ Run(i, UpMigration(rpc[i].v))
    /\ Proceed(i, At("set_clean", rpc[i].v), At("unlock", 0))

\* For a pending migration v: SetVersion(v, false), then the next one.
RunnerSetClean(i) ==
    /\ rpc[i].at = "set_clean"
    /\ SetVersion(i, rpc[i].v, FALSE)
    /\ Proceed(i,
               IF rpc[i].v >= LatestVersion
               THEN At("unlock", 0)
               ELSE At("set_dirty", rpc[i].v + 1),
               At("unlock", 0))

\* m.Up(): Unlock, with or without an error so far.
RunnerUnlock(i) ==
    /\ rpc[i].at = "unlock"
    /\ \/ Unlock(i)
       \/ ReleaseDelete(i)
    /\ Proceed(i, At("close", 0), At("close", 0))

\* defer m.Close(): Driver.Close; RunMigrations returns rerr[i].
RunnerClose(i) ==
    /\ rpc[i].at = "close"
    /\ Close(i)
    /\ rpc' = [rpc EXCEPT ![i] = At("done", 0)]
    /\ UNCHANGED <<rerr, parsed, ctx, tx>>

\* A fresh database file and a RunMigrations about to start per instance.
InitRunners ==
    /\ ledgerTable = FALSE /\ ledger = {}
    /\ lockTable = FALSE /\ lockRows = {}
    /\ userTable = FALSE /\ userRows = {}
    /\ conn = [i \in Inst |-> "nil"]
    /\ cfg = [i \in Inst |-> ParseConfig(DefaultURL).config]
    /\ pc = [i \in Inst |-> "idle"]
    /\ todo = [i \in Inst |-> NoRun]
    /\ dropping = [i \in Inst |-> {}]
    /\ elapsed = [i \in Inst |-> 0]
    /\ holder = [i \in Inst |-> FALSE]
    /\ rpc = [i \in Inst |-> At("open", 0)]
    /\ rerr = [i \in Inst |-> "nil"]
    /\ last = NoCall
    /\ parsed = NoParse
    /\ ctx = [i \in Inst |-> "background"]
    /\ tx = [i \in Inst |-> NoTx]

NextRunners ==
    \E i \in Inst :
        \/ RunnerOpen(i)
        \/ RunnerLock(i)
        \/ RunnerVersion(i)
        \/ RunnerSetDirty(i)
        \/ RunnerRun(i)
        \/ RunnerSetClean(i)
        \/ RunnerUnlock(i)
        \/ RunnerClose(i)

SpecRunners == InitRunners /\ [][NextRunners]_vars

\* ------------------------------------------------------------ lock model

\* Instances that call Unlock only after their own Lock returned nil, and
\* migrate the database while they hold the lock.
Next ==
    \E i \in Inst :
        \/ Lock(i) /\ Direct
        \/ AcquirePoll(i) /\ Direct
        \/ Sleep(i) /\ Direct
        \/ holder[i] /\ Unlock(i) /\ Direct
        \/ ReleaseDelete(i) /\ Direct
        \/ holder[i] /\ Direct /\ \E v \in Versions : SetVersion(i, v, FALSE)
        \/ holder[i] /\ Run(i, <<CreateStmt, InsertStmt>>) /\ Direct

Spec == InitDefault /\ [][Next]_vars

\* The lock protocol alone: instances that lock, wait and unlock.
NextLock ==
    \E i \in Inst :
        \/ Lock(i) /\ Direct
        \/ AcquirePoll(i) /\ Direct
        \/ Sleep(i) /\ Direct
        \/ holder[i] /\ Unlock(i) /\ Direct
        \/ ReleaseDelete(i) /\ Direct

\* An instance inside Acquire keeps running its loop.
Fairness ==
    \A i \in Inst : /\ WF_vars(AcquirePoll(i) /\ Direct)
                    /\ WF_vars(Sleep(i) /\ Direct)

SpecLock == InitDefault /\ [][NextLock]_vars /\ Fairness

\* --------------------------------------------------- claims on the lock

\* The call that returns in this step.
Returns(i, op) == last' # last /\ last'.inst = i /\ last'.op = op

Holders == {i \in Inst : holder[i]}

\* C1: among instances that call Unlock only after their own Lock returned
\* nil, at most one holds the lock at any moment.
C1_AtMostOneHolder == Cardinality(Holders) <= 1

\* One instance holds the lock while another has tried and is waiting.
C1_Witness ==
    \E i, j \in Inst : i # j /\ holder[i] /\ pc[j] = "sleep" /\ elapsed[j] >= 1

\* C3 as stated: a Lock that began while another instance held the lock
\* fails with ErrLockTimeout only when the lock is still held; once the
\* holder has unlocked, the waiting Lock goes on to succeed.
C3_TimeoutOnlyWhileHeld ==
    [][\A i \in Inst :
          (Returns(i, "Lock") /\ last'.err = "ErrLockTimeout")
              => LockedRow \in lockRows]_vars

\* C3 amended: a Lock never returns nil while the lock row is marked or
\* another instance holds the lock, and every attempt a waiting Lock makes
\* before its deadline check fails, at a moment when the lock is free,
\* returns nil.  (Attempts come one poll interval apart, so a release during
\* the last interval is followed by the deadline check, not by an attempt.)
C3_NoSuccessWhileHeldAttemptWhenFreeSucceeds ==
    [][\A i \in Inst :
          /\ (Returns(i, "Lock") /\ last'.err = "nil")
                => /\ LockedRow \notin lockRows
                   /\ Holders \subseteq {i}
                   /\ holder'[i]
          /\ (/\ pc[i] = "acquire" /\ pc'[i] # "acquire"
              /\ ~DeadlinePassed(elapsed[i])
              /\ lockTable /\ LockedRow \notin lockRows)
                => /\ Returns(i, "Lock") /\ last'.err = "nil"
                   /\ holder'[i]]_vars

\* An instance that had to wait at least one poll interval for another
\* instance's Unlock holds the lock.
C3_Witness ==
    \E i \in Inst :
        /\ holder[i] /\ elapsed[i] >= 1 /\ pc[i] = "idle"
        /\ last.inst = i /\ last.op = "Lock" /\ last.err = "nil"

\* C4: a Lock of an open Driver that returns while the lock is held returns
\* ErrLockTimeout, and only once the 15 s deadline has passed; and a Lock
\* that is waiting always returns.
C4_HeldLockTimesOut ==
    /\ [][\A i \in Inst :
            (Returns(i, "Lock") /\ conn[i] = "open" /\ LockedRow \in lockRows)
                => /\ last'.err = "ErrLockTimeout"
                   /\ DeadlinePassed(elapsed[i])
                   /\ UNCHANGED <<lockRows, holder>>]_vars
    /\ \A i \in Inst : (pc[i] \in {"acquire", "sleep"}) ~> (pc[i] = "idle")

\* A Lock returned ErrLockTimeout while another instance holds the lock.
C4_Witness ==
    \E i, j \in Inst :
        /\ i # j /\ holder[j] /\ LockedRow \in lockRows
        /\ last.inst = i /\ last.op = "Lock" /\ last.err = "ErrLockTimeout"
        /\ pc[i] = "idle" /\ DeadlinePassed(elapsed[i])

\* ------------------------------------------------- claims on the runner

AllDone == \A i \in Inst : rpc[i].at = "done"

C5_CleanSetVersionLeavesOneRow ==
    [][\A i \in Inst :
         (Returns(i, "SetVersion") /\ last'.err = "nil" /\ ~last'.dirty)
           => ledger' = {Row(last'.version, FALSE)}]_vars

\* A clean SetVersion has just returned nil and the ledger is its one row.
C5_Witness ==
    /\ last.op = "SetVersion" /\ last.err = "nil" /\ ~last.dirty
    /\ last.version = 1
    /\ ledger = {Row(1, FALSE)}

\* C6: SetVersion(v, true) succeeds in every ledger state, also when a row
\* for v exists already, adds exactly the row (v, true) and leaves every
\* other row as it was: the row count grows by one.
C6_DirtySetVersionAlwaysAppends ==
    [][\A i \in Inst :
         (Returns(i, "SetVersion") /\ last'.dirty /\ conn[i] = "open")
           => /\ last'.err = "nil"
              /\ ledger' = ledger \cup {Row(last'.version, TRUE)}
              /\ Cardinality(ledger') = Cardinality(ledger) + 1]_vars

\* C7: after a successful SetVersion(v, d) the next Version() returns (v, d),
\* whether v lies above or below the versions already in the ledger.
C7_VersionReportsLastSetVersion ==
    [][\A i \in Inst :
         (Returns(i, "SetVersion") /\ last'.err = "nil")
           => VersionOf(ledgerTable', ledger')
                = [version |-> last'.version, dirty |-> last'.dirty]]_vars

\* C9: with transactions wrapped, a Run of a migration one of whose
\* statements fails returns an error and leaves the whole database as it was
\* before the call.
C9_FailedTxRunChangesNothing ==
    [][\A i \in Inst, m \in Migrations :
         (/\ Run(i, m)
          /\ conn[i] = "open" /\ ~cfg[i].NoTxWrap
          /\ ~ExecAll(userTable, userRows, m, 0).ok)
           => /\ Returns(i, "Run") /\ last'.err = "error"
              /\ UNCHANGED dbVars]_vars

\* A wrapped Run failed after executing statements, and the table its first
\* statement created is not there.
C9_Witness ==
    /\ last.op = "Run" /\ last.err = "error" /\ last.done >= 1
    /\ ~cfg[last.inst].NoTxWrap
    /\ ~userTable

\* C10: with noTransactionWrap, a Run whose statement fails returns an error
\* and the statements before the failing one stay committed: each took effect
\* in the shared database when it was executed, and the failing statement
\* undoes nothing.
C10_FailedNoTxRunKeepsEarlierStatements ==
    [][\A i \in Inst :
         /\ (todo'[i].done = todo[i].done + 1)
              => (userTable' /\ (~userTable \/ userRows' # userRows))
         /\ (Returns(i, "Run") /\ last'.err = "error"
               /\ conn[i] = "open" /\ cfg[i].NoTxWrap)
              => (userTable' = userTable /\ userRows' = userRows)]_vars

\* An unwrapped Run failed at its third statement: the table and the row of
\* the first two are there.
C10_Witness ==
    /\ last.op = "Run" /\ last.err = "error" /\ last.done = 2
    /\ cfg[last.inst].NoTxWrap
    /\ userTable /\ userRows = {1}

\* C8: Version() returns the ledger row with the greatest version, and
\* (-1, false, nil) when the ledger has no rows or its table does not exist
\* (after Drop).
C8_VersionIsGreatestRowOrNoVersion ==
    [][\A i \in Inst :
         (Returns(i, "Version") /\ conn[i] = "open")
           => /\ last'.err = "nil"
              /\ IF ledgerTable /\ ledger # {}
                 THEN /\ Row(last'.version, last'.dirty) \in ledger
                      /\ \A r \in ledger : r.version <= last'.version
                 ELSE last'.version = -1 /\ ~last'.dirty]_vars

\* Version() has just answered (-1, false) on a database whose ledger table
\* a Drop removed.
C8_Witness ==
    /\ last.op = "Version" /\ last.err = "nil"
    /\ last.version = -1 /\ ~last.dirty
    /\ ~ledgerTable

\* --------------------------------------------------- claims on the schema

\* C11: when Drop() returns nil no table is left, the ledger and lock tables
\* included; a Drop() on a database without tables returns nil at once and
\* changes nothing.
C11_DropLeavesNoTableAndRepeats ==
    [][\A i \in Inst :
         /\ (Returns(i, "Drop") /\ last'.err = "nil")
               => (~ledgerTable' /\ ~lockTable' /\ ~userTable')
         /\ (Drop(i) /\ conn[i] = "open" /\ ExistingTables = {})
               => /\ Returns(i, "Drop") /\ last'.err = "nil"
                  /\ UNCHANGED dbVars]_vars

\* Drop() has returned nil to an open Driver and the database has no table.
C11_Witness ==
    /\ last.op = "Drop" /\ last.err = "nil" /\ conn[last.inst] = "open"
    /\ ExistingTables = {}
    /\ pc[last.inst] = "idle"

\* ------------------------------------------------- claims on closed Drivers

DriverOps == {"Lock", "Unlock", "Run", "SetVersion", "Version", "Drop"}

\* C12: on a Driver returned by Open and closed since, Lock, Unlock, Run,
\* SetVersion, Version and Drop return ErrDatabaseClosed and leave the ledger
\* and lock tables unchanged.
C12_ClosedDriverReturnsDatabaseClosed ==
    [][\A i \in Inst, op \in DriverOps :
         (Returns(i, op) /\ conn[i] = "closed")
           => /\ last'.err = "ErrDatabaseClosed"
              /\ UNCHANGED <<ledgerTable, ledger, lockTable, lockRows>>]_vars

\* C13: Close() on a Driver never opened or already closed returns nil and
\* has no effect.
C13_CloseAgainIsNoOp ==
    [][\A i \in Inst :
         (Close(i) /\ conn[i] \in {"nil", "closed"})
           => /\ Returns(i, "Close") /\ last'.err = "nil"
              /\ UNCHANGED <<dbVars, conn, cfg, holder>>]_vars

\* Close() has returned nil on a Driver that was never opened, while another
\* Driver is closed.
C13_Witness ==
    /\ last.op = "Close" /\ last.err = "nil"
    /\ conn[last.inst] = "nil"
    /\ \E j \in Inst : conn[j] = "closed"

\* ----------------------------------------------- claims on the lock table

\* C14: Unlock() of an open Driver returns nil, whoever calls it and whatever
\* the lock table holds; when the lock table does not exist or holds no row
\* the call changes nothing.
C14_UnlockAlwaysSucceeds ==
    [][\A i \in Inst :
         (Returns(i, "Unlock") /\ conn[i] = "open")
           => /\ last'.err = "nil"
              /\ (~lockTable \/ lockRows = {}) => UNCHANGED dbVars]_vars

\* Unlock() has returned nil on a database whose lock table a Drop removed.
C14_Witness ==
    /\ last.op = "Unlock" /\ last.err = "nil" /\ conn[last.inst] = "open"
    /\ ~lockTable

\* C17: while an instance is between its successful Lock() and the return of
\* its Unlock() the lock row reads locked = TRUE; when that Unlock() returns
\* no row with locked = TRUE is left; IsLocked answers true exactly while
\* some instance holds the lock, and false when there is no lock row.
C17_LockRowTracksHolder ==
    /\ [](\A i \in Inst : holder[i] => LockedRow \in lockRows)
    /\ [][\A i \in Inst :
            /\ (Returns(i, "Unlock") /\ last'.err = "nil")
                  => \A r \in lockRows' : ~r.locked
            /\ Returns(i, "IsLocked")
                  => /\ last'.err = "nil"
                     /\ last'.dirty = (Holders # {})
                     /\ lockRows = {} => ~last'.dirty]_vars

\* IsLocked has answered false after an Unlock left the lock table without
\* a row.
C17_Witness ==
    /\ last.op = "IsLocked" /\ last.err = "nil" /\ ~last.dirty
    /\ lockTable /\ lockRows = {}

\* C19 as stated: an initialised lock table holds exactly one row, with
\* id = 1, in every reachable state.
C19_LockTableHasExactlyOneRow ==
    lockTable => (Cardinality(lockRows) = 1 /\ \A r \in lockRows : r.id = LockRowId)

\* C19 amended: the lock table never holds more than one row, and a row it
\* holds has id = 1; Unlock and ForceRelease leave it without a row until
\* the next Open or acquisition attempt inserts the row again.
C19_LockTableHasAtMostOneRow ==
    /\ [](Cardinality(lockRows) <= 1 /\ \A r \in lockRows : r.id = LockRowId)
    /\ [][\A i \in Inst :
            /\ ((Returns(i, "Unlock") \/ Returns(i, "ForceRelease"))
                   /\ last'.err = "nil")
                  => lockRows' = {}
            /\ (Returns(i, "Open") /\ last'.err = "nil")
                  => Cardinality(lockRows') = 1
            /\ (Returns(i, "Lock") /\ last'.err = "nil")
                  => lockRows' = {LockedRow}]_vars

\* ForceRelease has returned nil to an open Driver and the initialised lock
\* table holds no row.
C19_Witness ==
    /\ last.op = "ForceRelease" /\ last.err = "nil"
    /\ conn[last.inst] = "open"
    /\ lockTable /\ lockRows = {}

\* ------------------------------------------------------ URL round trip

\* Any URL of the model, not parsed yet; the Drivers stay as NewDriver left
\* them.
InitConfig ==
    /\ Initialized
    /\ conn = [i \in Inst |-> "open"]
    /\ cfg = [i \in Inst |-> ParseConfig(DefaultURL).config]
    /\ Idle
    /\ \E u \in URLs :
           parsed = [NoParse EXCEPT !.stage = "url", !.url = u, !.built = u]

NoDriverCall ==
    UNCHANGED <<dbVars, conn, cfg, pc, todo, dropping, elapsed, holder,
                rpc, rerr, ctx, tx, last>>

\* ParseConfig(rawurl) on the URL drawn.
ParseConfigFirst ==
    /\ parsed.stage = "url"
    /\ parsed' = [parsed EXCEPT !.stage = "parsed",
                                !.first = ParseConfig(parsed.url)]
    /\ NoDriverCall

\* BuildURL on the four fields of the Config the parse returned.
RebuildURL ==
    /\ parsed.stage = "parsed" /\ parsed.first.err = "nil"
    /\ parsed' = [parsed EXCEPT !.stage = "built",
                                !.built = URLOf(parsed.first.config)]
    /\ NoDriverCall

\* ParseConfig on the URL built.
ParseConfigAgain ==
    /\ parsed.stage = "built"
    /\ parsed' = [parsed EXCEPT !.stage = "again",
                                !.second = ParseConfig(parsed.built)]
    /\ NoDriverCall

NextConfig == ParseConfigFirst \/ RebuildURL \/ ParseConfigAgain

SpecConfig == InitConfig /\ [][NextConfig]_vars

\* C18: every URL ParseConfig accepts, rebuilt by BuildURL from the Config
\* and parsed again, gives a Config equal to the first in all four fields.
C18_RebuiltURLParsesToSameConfig ==
    parsed.stage = "again" =>
        /\ parsed.second.err = "nil"
        /\ parsed.second.config = parsed.first.config

\* ------------------------------------------------------------- Open model

\* Open is called with the URLs of TestOpen and their variations: the path
\* of the shared database or no path at all, any scheme, any x-tx-mode text,
\* the default ledger table and transaction wrapping.
OpenURLs ==
    {u \in URLs : u.rest \in {<<>>, DbName} /\ u.table = "" /\ u.notx = ""}

\* A database file that does not exist yet and Drivers never opened.
InitOpen ==
    /\ ledgerTable = FALSE /\ ledger = {}
    /\ lockTable = FALSE /\ lockRows = {}
    /\ userTable = FALSE /\ userRows = {}
    /\ conn = [i \in Inst |-> "nil"]
    /\ cfg = [i \in Inst |-> DefaultConfig]
    /\ Quiet

NextOpen ==
    \E i \in Inst :
        \/ \E u \in OpenURLs : Open(i, u) /\ Direct
        \/ OpenCreateLockTable(i) /\ Direct
        \/ OpenSeedLockRow(i) /\ Direct
        \/ Close(i) /\ Direct

SpecOpen == InitOpen /\ [][NextOpen]_vars

\* The URLs the claim is about: unknown scheme, empty path, or an x-tx-mode
\* other than the three modes.
Malformed(u) ==
    \/ u.scheme \notin {"sqlite3", "ncruces-sqlite3"}
    \/ u.rest = <<>>
    \/ u.txmode \notin {""} \cup TxModes

\* C15: Open on a URL with an unknown scheme, an empty path or an unknown
\* x-tx-mode fails with ErrInvalidConfig, returns no Driver and creates
\* neither the ledger table nor the lock table.
C15_MalformedURLFailsWithInvalidConfig ==
    [][\A i \in Inst, u \in OpenURLs :
           (Open(i, u) /\ Malformed(u)) =>
               /\ last' # last
               /\ last'.op = "Open" /\ last'.err = "ErrInvalidConfig"
               /\ conn'[i] = conn[i] /\ pc'[i] = "idle"
               /\ UNCHANGED dbVars]_vars

\* ------------------------------------------------------ clean ledger rows

\* C20: whatever SetVersion calls, successful or failed, the instances have
\* made, at most one row of the ledger has dirty = false.
C20_AtMostOneCleanRow ==
    Cardinality({r \in ledger : ~r.dirty}) <= 1

\* A clean row next to a dirty one, just after a SetVersion that failed.
C20_Witness ==
    /\ \E r \in ledger : ~r.dirty
    /\ \E r \in ledger : r.dirty
    /\ last.op = "SetVersion" /\ last.err # "nil"

\* ------------------------------------------------- running migrations again

\* No RunMigrations is in progress on instance i.
NotRunning(i) == rpc[i].at \in {"none", "done"}

\* A call of RunMigrations, made while no other call is in progress: the
\* runs follow one another, as in TestMigrationRunner.
RunMigrations(i) ==
    /\ \A j \in Inst : NotRunning(j)
    /\ rpc' = [rpc EXCEPT ![i] = At("open", 0)]
    /\ rerr' = [rerr EXCEPT ![i] = "nil"]
    /\ UNCHANGED <<dbVars, conn, cfg, pc, todo, dropping, elapsed, holder,
                   parsed, ctx, tx, last>>

\* A fresh database file and no RunMigrations called yet.
InitRerun ==
    /\ ledgerTable = FALSE /\ ledger = {}
    /\ lockTable = FALSE /\ lockRows = {}
    /\ userTable = FALSE /\ userRows = {}
    /\ conn = [i \in Inst |-> "nil"]
    /\ cfg = [i \in Inst |-> ParseConfig(DefaultURL).config]
    /\ Quiet

NextRerun ==
    \E i \in Inst :
        \/ RunMigrations(i)
        \/ RunnerOpen(i)
        \/ RunnerLock(i)
        \/ RunnerVersion(i)
        \/ RunnerSetDirty(i)
        \/ RunnerRun(i)
        \/ RunnerSetClean(i)
        \/ RunnerUnlock(i)
        \/ RunnerClose(i)

SpecRerun == InitRerun /\ [][NextRerun]_vars

\* The ledger holds the latest version, clean, and nothing else.
AtLatest == ledger = {Row(LatestVersion, FALSE)}

\* C16: on a database already at the latest version RunMigrations executes
\* no migration (no Run and no SetVersion is called), leaves the ledger and
\* the migrated tables as they are, and returns nil.
C16_RunAgainAtLatestIsNoOp ==
    [][AtLatest =>
           /\ AtLatest'
           /\ UNCHANGED <<userTable, userRows>>
           /\ last' # last => last'.op \notin {"Run", "SetVersion"}
           /\ \A i \in Inst : rpc'[i].at = "done" => rerr'[i] = "nil"]_vars

\* Every instance has run: all but the first run found the database at the
\* latest version, and the last of them has just returned nil.
C16_Witness ==
    /\ AtLatest
    /\ \A i \in Inst : rpc[i].at = "done" /\ rerr[i] = "nil"
    /\ last.op = "Close"

\* ------------------------------------------------------- parsed Configs

\* C29: a Config ParseConfig returns without error passes Validate: database
\* name and ledger table name not empty, the mode one of the three; a
\* parameter absent from the URL, or empty in it, has its default.
C29_ParsedConfigIsValid ==
    (parsed.stage \in {"parsed", "built", "again"} /\ parsed.first.err = "nil")
    => LET c == parsed.first.config
           u == parsed.url
       IN  /\ Validate(c) = "nil"
           /\ c.DatabaseName # <<>> /\ c.MigrationsTable # ""
           /\ c.TxMode \in TxModes
           /\ u.table = "" => c.MigrationsTable = "schema_migrations"
           /\ u.notx = "" => ~c.NoTxWrap
           /\ u.txmode = "" => c.TxMode = "DEFERRED"

\* A URL with a host and no path, no parameter, parsed to a valid Config
\* with the three defaults.
C29_Witness ==
    /\ parsed.stage = "parsed" /\ parsed.first.err = "nil"
    /\ parsed.url.rest = <<"a">>
    /\ parsed.url.table = "" /\ parsed.url.notx = "" /\ parsed.url.txmode = ""
    /\ parsed.first.config.MigrationsTable = "schema_migrations"
    /\ parsed.first.config.TxMode = "DEFERRED"

\* ------------------------------------------------------- cancelled contexts

\* The contexts a caller hands to Acquire: one it may still cancel, or one
\* cancelled already.
Contexts == {"live", "cancelled"}

\* LockManager.Acquire(ctx) of an opened Driver, up to its loop:
\* createLockTable and the deadline.  Driver.Lock is Acquire with the
\* background context.
Acquire(i, c) ==
    /\ pc[i] = "idle" /\ conn[i] = "open"
    /\ ctx' = [ctx EXCEPT ![i] = c]
    /\ lockTable' = TRUE
    /\ elapsed' = [elapsed EXCEPT ![i] = 0]
    /\ pc' = [pc EXCEPT ![i] = "acquire"]
    /\ UNCHANGED <<ledgerTable, ledger, lockRows, userTable, userRows,
                   conn, cfg, todo, dropping, holder, rpc, rerr, parsed,
                   tx, last>>

\* The caller cancels the context of instance i, at any moment.
Cancel(i) ==
    /\ ctx[i] = "live"
    /\ ctx' = [ctx EXCEPT ![i] = "cancelled"]
    /\ UNCHANGED <<dbVars, conn, cfg, pc, todo, dropping, elapsed, holder,
                   rpc, rerr, parsed, tx, last>>

NextCancel ==
    \E i \in Inst :
        \/ \E c \in Contexts : Acquire(i, c)
        \/ Cancel(i)
        \/ AcquirePoll(i) /\ Direct
        \/ Sleep(i) /\ Direct
        \/ holder[i] /\ Unlock(i) /\ Direct
        \/ ReleaseDelete(i) /\ Direct

SpecCancel == InitDefault /\ [][NextCancel]_vars

\* C22: a turn of the loop of Acquire that finds its context cancelled
\* returns the context's error, makes no attempt and leaves the lock row as
\* it is; that is the first turn when the context was cancelled on entry.
C22_CancelledAcquireReturnsContextError ==
    [][\A i \in Inst :
           (pc[i] = "acquire" /\ pc'[i] # "acquire" /\ ctx[i] = "cancelled")
           => /\ pc'[i] = "idle"
              /\ last' # last /\ last'.inst = i /\ last'.op = "Lock"
              /\ last'.err = "context canceled"
              /\ lockRows' = lockRows
              /\ holder' = holder]_vars

\* An Acquire cancelled while it waited behind a holder has just returned
\* the context's error, the holder still holding.
C22_Witness ==
    /\ last.op = "Lock" /\ last.err = "context canceled"
    /\ elapsed[last.inst] > 0
    /\ \E j \in Inst : j # last.inst /\ holder[j]
    /\ LockedRow \in lockRows

\* ------------------------------------------------------ Drop by the holder

\* Instances that lock and unlock what they locked; the holder may call
\* Drop between its Lock and its Unlock.
NextLockDrop ==
    \E i \in Inst :
        \/ Lock(i) /\ Direct
        \/ AcquirePoll(i) /\ Direct
        \/ Sleep(i) /\ Direct
        \/ holder[i] /\ Unlock(i) /\ Direct
        \/ ReleaseDelete(i) /\ Direct
        \/ holder[i] /\ Drop(i) /\ Direct
        \/ DropNext(i) /\ Direct

SpecLockDrop == InitDefault /\ [][NextLockDrop]_vars

\* C21: an attempt of Acquire that fails before the deadline, on a lock held
\* elsewhere or on a database error, is followed by a sleep and another
\* attempt; Lock fails only with ErrLockTimeout or the context's error.
C21_FailedAttemptsAreRetried ==
    [][\A i \in Inst :
           (pc[i] = "acquire" /\ pc'[i] # "acquire")
           => \/ pc'[i] = "sleep" /\ last' = last
              \/ /\ pc'[i] = "idle" /\ last' # last /\ last'.inst = i
                 /\ last'.err \in {"nil", "ErrLockTimeout", "context canceled"}]_vars

\* C27: when the holder calls Drop between its Lock and its Unlock, no Lock
\* of another instance returns nil before the holder's Unlock.
C27_HolderDropKeepsOthersOut ==
    [][\A i \in Inst :
           (last' # last /\ last'.inst = i /\ last'.op = "Lock"
            /\ last'.err = "nil")
           => \A j \in Inst \ {i} : ~holder[j]]_vars

\* ------------------------------------------------- Unlock by a non-holder

\* Instances that lock, and unlock whether they hold the lock or not.
NextUnlockers ==
    \E i \in Inst :
        \/ Lock(i) /\ Direct
        \/ AcquirePoll(i) /\ Direct
        \/ Sleep(i) /\ Direct
        \/ Unlock(i) /\ Direct
        \/ ReleaseDelete(i) /\ Direct

SpecUnlockers == InitDefault /\ [][NextUnlockers]_vars

\* C26: while an instance holds the lock, the Unlock of an instance that
\* does not hold it leaves the lock row locked, and no Lock of another
\* instance returns nil until the holder has unlocked.
C26_StrangersUnlockKeepsLock ==
    [][\A i \in Inst :
           /\ (pc[i] = "release" /\ pc'[i] = "idle" /\ ~holder[i]
               /\ \E j \in Inst \ {i} : holder[j])
              => (LockedRow \in lockRows => LockedRow \in lockRows')
           /\ (last' # last /\ last'.inst = i /\ last'.op = "Lock"
               /\ last'.err = "nil")
              => \A j \in Inst \ {i} : ~holder[j]]_vars

\* ------------------------------------------------------------ ForceRelease

\* C23: after a ForceRelease that returned nil the lock table holds no
\* locked row, whoever held the lock; the first attempt of an Acquire that
\* finds no locked row takes the lock.
C23_ForceReleaseFreesLock ==
    [][\A i \in Inst :
           /\ (last' # last /\ last'.inst = i /\ last'.op = "ForceRelease"
               /\ last'.err = "nil")
              => \A r \in lockRows' : ~r.locked
           /\ (pc[i] = "acquire" /\ pc'[i] # "acquire" /\ elapsed[i] = 0
               /\ lockTable /\ \A r \in lockRows : ~r.locked)
              => /\ last' # last /\ last'.inst = i /\ last'.op = "Lock"
                 /\ last'.err = "nil"
                 /\ holder'[i] /\ LockedRow \in lockRows']_vars

\* A ForceRelease by an instance that did not hold the lock has just
\* returned nil and the holder's row is gone.
C23_Witness ==
    /\ last.op = "ForceRelease" /\ last.err = "nil"
    /\ ~holder[last.inst]
    /\ \E j \in Inst : holder[j]
    /\ lockTable /\ lockRows = {}

\* ------------------------------------------------------- abandoned locks

\* Instances that lock, close while they hold the lock, unlock for one
\* another and force the release.
NextAbandon ==
    \E i \in Inst :
        \/ Lock(i) /\ Direct
        \/ AcquirePoll(i) /\ Direct
        \/ Sleep(i) /\ Direct
        \/ holder[i] /\ Close(i) /\ Direct
        \/ Unlock(i) /\ Direct
        \/ ReleaseDelete(i) /\ Direct
        \/ ForceRelease(i) /\ Direct

SpecAbandon == InitDefault /\ [][NextAbandon]_vars

\* The step is the DELETE of an Unlock or a ForceRelease.
Releasing ==
    \/ \E i \in Inst : pc[i] = "release" /\ pc'[i] = "idle"
    \/ last' # last /\ last'.op = "ForceRelease"

\* C28: a locked row stays locked through every step that is not the DELETE
\* of an Unlock or a ForceRelease, the holder's Close, the timeouts and the
\* attempts of the others included; a Lock that returns while the row is
\* locked returns ErrLockTimeout.
C28_LockOutlivesItsDriver ==
    [][(LockedRow \in lockRows) =>
           /\ ~Releasing => LockedRow \in lockRows'
           /\ \A i \in Inst :
                  (pc[i] = "acquire" /\ pc'[i] = "idle")
                  => /\ last' # last /\ last'.inst = i /\ last'.op = "Lock"
                     /\ last'.err = "ErrLockTimeout"]_vars

\* The holder has closed its Driver without unlocking, and the Lock of
\* another instance has just timed out on the row it left.
C28_Witness ==
    /\ last.op = "Lock" /\ last.err = "ErrLockTimeout"
    /\ \E j \in Inst \ {last.inst} : holder[j] /\ conn[j] = "closed"
    /\ LockedRow \in lockRows

\* ------------------------------------------------ opening a database in use
\* Some Drivers are open on one initialised database and the others are
\* opened meanwhile, by Open or by WithInstance.  The first Driver, once
\* open, locks the database, writes the ledger and unlocks.
InitReopen ==
    /\ Initialized
    /\ conn \in [Inst -> {"nil", "open"}]
    /\ cfg = [i \in Inst |-> ParseConfig(DefaultURL).config]
    /\ Quiet

NextReopen ==
    \E i \in Inst :
        \/ i = 1 /\ Lock(i) /\ Direct
        \/ AcquirePoll(i) /\ Direct
        \/ holder[i] /\ SetVersion(i, 1, FALSE) /\ Direct
        \/ holder[i] /\ Unlock(i) /\ Direct
        \/ ReleaseDelete(i) /\ Direct
        \/ Open(i, DefaultURL) /\ Direct
        \/ WithInstance(i, TRUE, NilConfig) /\ Direct
        \/ OpenCreateLockTable(i) /\ Direct
        \/ OpenSeedLockRow(i) /\ Direct

SpecReopen == InitReopen /\ [][NextReopen]_vars

\* The step is a statement of initializeDatabase run for instance i.
Initializing(i) ==
    \/ pc[i] = "idle" /\ pc'[i] = "open_table"
    \/ pc[i] = "open_table" /\ pc'[i] = "open_row"
    \/ pc[i] = "open_row" /\ pc'[i] = "idle"

\* C24: on a database whose ledger and lock tables exist, every statement of
\* initializeDatabase, run by Open or by WithInstance, keeps both tables,
\* every ledger row and every lock row; all it may add is the unlocked lock
\* row when the lock table holds none, and no instance stops being the
\* holder.
C24_InitializationKeepsLedgerAndLock ==
    [][\A i \in Inst :
           (Initializing(i) /\ ledgerTable /\ lockTable)
           => /\ ledgerTable' /\ lockTable'
              /\ ledger' = ledger
              /\ lockRows \subseteq lockRows'
              /\ lockRows' \subseteq lockRows \cup {UnlockedRow}
              /\ (lockRows # {} => lockRows' = lockRows)
              /\ holder' = holder]_vars

\* A Driver has just been opened while another instance holds the lock and
\* the ledger has a row.
C24_Witness ==
    /\ last.op = "Open" /\ last.err = "nil"
    /\ \E j \in Inst \ {last.inst} : holder[j]
    /\ LockedRow \in lockRows
    /\ ledger # {}

\* ------------------------------------------------- Drivers of WithInstance
\* The configurations callers hand to WithInstance: none, or a table name (or
\* none), a NoTxWrap and a transaction mode, default or not.
WithConfigs ==
    {NilConfig} \cup
    [DatabaseName : {<<>>},
     MigrationsTable : {"", "schema_migrations", "custom_migrations"},
     NoTxWrap : BOOLEAN, TxMode : {"DEFERRED", "EXCLUSIVE"}]

\* Every Driver comes from WithInstance on a connection to one database
\* file, then runs migrations and is closed.
NextInstance ==
    \E i \in Inst :
        \/ \E c \in WithConfigs : WithInstance(i, TRUE, c) /\ Direct
        \/ WithInstance(i, FALSE, NilConfig) /\ Direct
        \/ OpenCreateLockTable(i) /\ Direct
        \/ OpenSeedLockRow(i) /\ Direct
        \/ \E m \in {<<CreateStmt, InsertStmt>>, PartialMigration} :
               Run(i, m) /\ Direct
        \/ Close(i) /\ Direct

SpecInstance == InitOpen /\ [][NextInstance]_vars

\* C30: the Driver WithInstance returns has the default configuration but
\* for a non-empty table name taken from the supplied one (the default table
\* for a nil config or an empty name), whatever NoTxWrap and TxMode were
\* supplied; each of its Runs is one DEFERRED transaction: it returns in one
\* step and a failed Run leaves the database as it was.
C30_WithInstanceTakesOnlyTheTable ==
    /\ [](\A i \in Inst :
              conn[i] = "open"
              => ~cfg[i].NoTxWrap /\ cfg[i].TxMode = "DEFERRED")
    /\ [][\A i \in Inst :
              /\ \A c \in WithConfigs :
                     WithInstance(i, TRUE, c)
                     => cfg'[i] = [DefaultConfig EXCEPT !.MigrationsTable =
                                      IF c.MigrationsTable = ""
                                      THEN "schema_migrations"
                                      ELSE c.MigrationsTable]
              /\ pc'[i] # "run"
              /\ (last' # last /\ last'.op = "Run" /\ last'.err # "nil")
                 => UNCHANGED dbVars]_vars

\* A Driver made by WithInstance with a table name of its own has run a
\* migration whose second statement failed, and the first was rolled back.
C30_Witness ==
    /\ last.op = "Run" /\ last.err = "error" /\ last.done > 0
    /\ cfg[last.inst].MigrationsTable = "custom_migrations"
    /\ conn[last.inst] = "open"

\* ------------------------------------------- readers beside a SetVersion
\* The ledgers a database may hold: at most one row per version.
Ledgers ==
    {rows \in SUBSET [version : Versions, dirty : BOOLEAN] :
        \A r, q \in rows : r.version = q.version => r = q}

\* Open Drivers on one database whose ledger holds any rows.
InitTx ==
    /\ ledgerTable = TRUE /\ ledger \in Ledgers
    /\ lockTable = TRUE /\ lockRows = {UnlockedRow}
    /\ userTable = FALSE /\ userRows = {}
    /\ conn = [i \in Inst |-> "open"]
    /\ cfg = [i \in Inst |-> ParseConfig(DefaultURL).config]
    /\ Quiet

\* Clean SetVersions, statement by statement, and Versions beside them.
NextTx ==
    \E i \in Inst :
        \/ \E v \in Versions : SetVersionBegin(i, v)
        \/ SetVersionClear(i)
        \/ SetVersionInsert(i)
        \/ SetVersionCommit(i)
        \/ Version(i) /\ Direct

SpecTx == InitTx /\ [][NextTx]_vars

\* C25: while the transaction of a SetVersion(v, false) that found a
\* non-empty ledger is open, the committed ledger stays the old one until
\* the Commit replaces it by the single row (v, false), and a Version of
\* another instance returns without error the top row of the old ledger,
\* never (-1, false).
C25_ReadersSeeOldOrNewLedger ==
    [][\A i \in Inst :
           (Writing(i) /\ tx[i].snapshot # {})
           => /\ ledger = tx[i].snapshot
              /\ ledger' \in {tx[i].snapshot, {Row(tx[i].v, FALSE)}}
              /\ ledger' # ledger => ~tx'[i].open
              /\ ~tx'[i].open => ledger' = {Row(tx[i].v, FALSE)}
              /\ \A j \in Inst \ {i} :
                     (last' # last /\ last'.inst = j /\ last'.op = "Version")
                     => /\ last'.err = "nil"
                        /\ last'.version # NoVersion
                        /\ [version |-> last'.version, dirty |-> last'.dirty]
                           = VersionOf(TRUE, tx[i].snapshot)]_vars

\* A Version has just returned while another instance is between the DELETE
\* and the Commit of a SetVersion on a ledger of two rows.
C25_Witness ==
    /\ last.op = "Version" /\ last.err = "nil"
    /\ \E i \in Inst \ {last.inst} :
           /\ Writing(i)
           /\ Cardinality(tx[i].snapshot) > 1
           /\ tx[i].rows = {Row(tx[i].v, FALSE)}

====
